---------------------------- MODULE Spec2Model ----------------------------
(***************************************************************************)
(* Model of marginal-tax-graph.py: the 2026 tax schedule table DATA_2026,  *)
(* the tax evaluator get_tax_details, and the script that calls it once    *)
(* for the sidebar scenario and twice per sample of the marginal-rate      *)
(* sweep.                                                                  *)
(*                                                                         *)
(* Arithmetic.  The source computes in floating point; the model computes  *)
(* the same expressions exactly, in fixed point:                           *)
(*   - inputs (wages, ltcg, ss) and schedule entries are whole dollars;    *)
(*   - incomes and deductions inside the evaluator (sd_used, deduction,    *)
(*     prov, taxable_ss, t_ord_inc, t_total, l_portion) are integer cents; *)
(*   - taxes (ord_tax, l_tax, niit) are pairs [d, f] standing for          *)
(*     d dollars + f ten-thousandths of a dollar, 0 <= f < 10000, because  *)
(*     cents * rate / 100 needs four decimals and the values exceed        *)
(*     32-bit integers.                                                    *)
(* With whole-dollar wages and capital gains and even-dollar Social        *)
(* Security every product of the source (0.06, 0.5, 0.85, rate/100,        *)
(* 0.038) is exact in these units.                                         *)
(***************************************************************************)
EXTENDS Integers, Sequences, FiniteSets

VARIABLES
    st_wages,     \* sidebar "Ordinary Wages ($)", st.session_state["wages"]
    ltcg_input,   \* sidebar "Long-Term Capital Gains ($)"
    ss_income,    \* sidebar "Annual Social Security ($)"
    st_status,    \* filing-status key handed to get_tax_details
    is_senior,    \* sidebar "Is 65 or Older?"
    pc,           \* position of the script: "start", "sweep", "done", "raised"
    res,          \* the 7-tuple of line 132, or NoResult
    idx,          \* index of the next sample of x_range
    x,            \* the sample last evaluated by the sweep loop
    r1,           \* get_tax_details at x          (line 160)
    r2,           \* get_tax_details at x + delta  (line 161)
    total_m       \* total marginal rate of the last sample (line 164), percent

vars == <<st_wages, ltcg_input, ss_income, st_status, is_senior, pc, res,
          idx, x, r1, r2, total_m>>

-----------------------------------------------------------------------------
(* Fixed-point helpers *)

Max(a, b) == IF a >= b THEN a ELSE b

Min(a, b) == IF a <= b THEN a ELSE b

\* floor(c * num / den), computed without forming c * num
MulDiv(c, num, den) == (c \div den) * num + ((c % den) * num) \div den

\* [d, f]: d dollars + f ten-thousandths, 0 <= f < 10000 (d < 0 iff negative)
FxZero == [d |-> 0, f |-> 0]

\* n * k ten-thousandths of a dollar, 0 <= k < 10000
FxTimes(n, k) ==
    [d |-> (n \div 10000) * k + ((n % 10000) * k) \div 10000,
     f |-> ((n % 10000) * k) % 10000]

FxAdd(a, b) ==
    [d |-> a.d + b.d + (a.f + b.f) \div 10000, f |-> (a.f + b.f) % 10000]

FxSub(a, b) ==
    IF a.f >= b.f THEN [d |-> a.d - b.d, f |-> a.f - b.f]
    ELSE [d |-> a.d - b.d - 1, f |-> a.f + 10000 - b.f]

FxLeq(a, b) == a.d < b.d \/ (a.d = b.d /\ a.f <= b.f)

FxMax(a, b) == IF FxLeq(b, a) THEN a ELSE b

\* a * 100 (a rate as a percentage)
FxTimes100(a) ==
    [d |-> a.d * 100 + (a.f * 100) \div 10000, f |-> (a.f * 100) % 10000]

-----------------------------------------------------------------------------
(* 2026 tax data, in whole dollars *)

\* Stands for the 9e9 that closes the last bracket of every schedule: above
\* every income of the model, and small enough to be held in cents.
Unbounded == 20000000

DATA_2026 ==
    [s \in {"Single", "Married Filing Jointly"} |->
        IF s = "Single" THEN
            [std |-> 16100, senior_deduction |-> 6500,
             ord |-> << <<0, 12400, 10>>, <<12400, 50400, 12>>,
                        <<50400, 105700, 22>>, <<105700, 201775, 24>>,
                        <<201775, 256225, 32>>, <<256225, 640600, 35>>,
                        <<640600, Unbounded, 37>> >>,
             ltcg |-> << <<0, 49450, 0>>, <<49450, 545500, 15>>,
                         <<545500, Unbounded, 20>> >>,
             ss_t |-> <<25000, 34000>>, phaseout_start |-> 75000,
             niit |-> 200000]
        ELSE
            [std |-> 32200, senior_deduction |-> 13000,
             ord |-> << <<0, 24800, 10>>, <<24800, 100800, 12>>,
                        <<100800, 211400, 22>>, <<211400, 403550, 24>>,
                        <<403550, 512450, 32>>, <<512450, 768700, 35>>,
                        <<768700, Unbounded, 37>> >>,
             ltcg |-> << <<0, 98900, 0>>, <<98900, 613700, 15>>,
                         <<613700, Unbounded, 20>> >>,
             ss_t |-> <<32000, 44000>>, phaseout_start |-> 150000,
             niit |-> 250000]]

-----------------------------------------------------------------------------
(* get_tax_details, its steps in the order of the source *)

\* Mutant of sd_used: the phase-out is taken on the whole of wages + ltcg,
\* the threshold forgotten
sd_used_no_threshold(c, wages, ltcg, senior) ==
    IF senior THEN
        LET phase_out == Max(0, (wages + ltcg) * 6)
        IN  Max(0, c.senior_deduction * 100 - phase_out)
    ELSE 0

\* lines 70-74: the senior deduction claimed, in cents
sd_used(c, wages, ltcg, senior) ==
    IF senior THEN
        LET phase_out == Max(0, (wages + ltcg - c.phaseout_start) * 6)
        IN  Max(0, c.senior_deduction * 100 - phase_out)
    ELSE 0

\* line 77: provisional income, in cents
prov(wages, ltcg, ss) == wages * 100 + ltcg * 100 + ss * 50

\* Mutant of taxable_ss: the upper tier without its cap of 0.85 * ss
taxable_ss_uncapped(c, status, wages, ltcg, ss) ==
    LET p  == prov(wages, ltcg, ss)
        t1 == c.ss_t[1] * 100
        t2 == c.ss_t[2] * 100
    IN  IF p > t2 THEN
            MulDiv(p - t2, 85, 100)
              + Min((IF status = "Married Filing Jointly" THEN 6000 ELSE 4500) * 100,
                    ss * 50)
        ELSE IF p > t1 THEN Min(ss * 50, MulDiv(p - t1, 50, 100))
        ELSE 0

\* Mutant of taxable_ss: the upper tier without the amount carried over from
\* the middle tier
taxable_ss_no_carry(c, status, wages, ltcg, ss) ==
    LET p  == prov(wages, ltcg, ss)
        t1 == c.ss_t[1] * 100
        t2 == c.ss_t[2] * 100
    IN  IF p > t2 THEN Min(ss * 85, MulDiv(p - t2, 85, 100))
        ELSE IF p > t1 THEN Min(ss * 50, MulDiv(p - t1, 50, 100))
        ELSE 0

\* lines 78-83: the taxable part of Social Security, in cents
taxable_ss(c, status, wages, ltcg, ss) ==
    LET p  == prov(wages, ltcg, ss)
        t1 == c.ss_t[1] * 100
        t2 == c.ss_t[2] * 100
    IN  IF p > t2 THEN
            Min(ss * 85,
                MulDiv(p - t2, 85, 100)
                  + Min((IF status = "Married Filing Jointly" THEN 6000 ELSE 4500) * 100,
                        ss * 50))
        ELSE IF p > t1 THEN Min(ss * 50, MulDiv(p - t1, 50, 100))
        ELSE 0

\* Mutant of ord_step: the slice is not cut at the bracket's upper bound
ord_step_uncut(acc, b, t_ord_inc) ==
    LET low == b[1] * 100  rate == b[3]
    IN  IF t_ord_inc > low THEN
            [tax  |-> FxAdd(acc.tax, FxTimes(t_ord_inc - low, rate)),
             rate |-> rate]
        ELSE acc

\* Mutant of ord_step: the slice's tax is assigned, not added (= for +=)
ord_step_assign(acc, b, t_ord_inc) ==
    LET low == b[1] * 100  high == b[2] * 100  rate == b[3]
    IN  IF t_ord_inc > low THEN
            [tax  |-> FxTimes(Min(t_ord_inc, high) - low, rate),
             rate |-> rate]
        ELSE acc

\* Mutant of ord_step: a bracket is entered at its lower bound (>= for >)
ord_step_inclusive(acc, b, t_ord_inc) ==
    LET low == b[1] * 100  high == b[2] * 100  rate == b[3]
    IN  IF t_ord_inc >= low THEN
            [tax  |-> FxAdd(acc.tax, FxTimes(Min(t_ord_inc, high) - low, rate)),
             rate |-> rate]
        ELSE acc

\* lines 89-91: the body of the ordinary-bracket loop; acc = [tax, rate]
ord_step(acc, b, t_ord_inc) ==
    LET low == b[1] * 100  high == b[2] * 100  rate == b[3]
    IN  IF t_ord_inc > low THEN
            [tax  |-> FxAdd(acc.tax, FxTimes(Min(t_ord_inc, high) - low, rate)),
             rate |-> rate]
        ELSE acc

RECURSIVE ord_loop(_, _, _, _)
\* lines 86-91: for low, high, rate in c["ord"], from bracket j on
ord_loop(brackets, j, t_ord_inc, acc) ==
    IF j > Len(brackets) THEN acc
    ELSE ord_loop(brackets, j + 1, t_ord_inc, ord_step(acc, brackets[j], t_ord_inc))

\* Mutant of ltcg_step: the overlap starts at the bracket's lower bound, so
\* the part of the bracket below the ordinary income is taxed too
ltcg_step_from_low(acc, b, t_ord_inc, l_portion) ==
    LET low == b[1] * 100  high == b[2] * 100  rate == b[3]
        overlap == Max(0, Min(t_ord_inc + l_portion, high) - low)
    IN  [tax  |-> FxAdd(acc.tax, FxTimes(overlap, rate)),
         rate |-> IF (t_ord_inc + l_portion) > low THEN rate ELSE acc.rate]

\* Mutant of ltcg_step: the rate follows the ordinary income, not the top of
\* the stacked income
ltcg_step_rate_by_ordinary(acc, b, t_ord_inc, l_portion) ==
    LET low == b[1] * 100  high == b[2] * 100  rate == b[3]
        overlap == Max(0, Min(t_ord_inc + l_portion, high) - Max(t_ord_inc, low))
    IN  [tax  |-> FxAdd(acc.tax, FxTimes(overlap, rate)),
         rate |-> IF t_ord_inc > low THEN rate ELSE acc.rate]

\* lines 98-101: the body of the capital-gains loop; acc = [tax, rate]
ltcg_step(acc, b, t_ord_inc, l_portion) ==
    LET low == b[1] * 100  high == b[2] * 100  rate == b[3]
        overlap == Max(0, Min(t_ord_inc + l_portion, high) - Max(t_ord_inc, low))
    IN  [tax  |-> FxAdd(acc.tax, FxTimes(overlap, rate)),
         rate |-> IF (t_ord_inc + l_portion) > low THEN rate ELSE acc.rate]

RECURSIVE ltcg_loop(_, _, _, _, _)
\* lines 95-101: for low, high, rate in c["ltcg"], from bracket j on
ltcg_loop(brackets, j, t_ord_inc, l_portion, acc) ==
    IF j > Len(brackets) THEN acc
    ELSE ltcg_loop(brackets, j + 1, t_ord_inc, l_portion,
                   ltcg_step(acc, brackets[j], t_ord_inc, l_portion))

\* Mutant of niit: the surtax without its floor at 0
niit_unfloored(c, wages, ltcg) == FxTimes(wages + ltcg - c.niit, 380)

\* line 103: Net Investment Income Tax
niit(c, wages, ltcg) == FxMax(FxZero, FxTimes(wages + ltcg - c.niit, 380))

\* lines 68-104, for a status that is a key of DATA_2026
get_tax_details(wages, ltcg, ss, status, senior) ==
    LET c          == DATA_2026[status]
        sd         == sd_used(c, wages, ltcg, senior)
        deduction  == c.std * 100 + sd
        tss        == taxable_ss(c, status, wages, ltcg, ss)
        t_ord_inc  == Max(0, (wages * 100 + tss) - deduction)
        o          == ord_loop(c.ord, 1, t_ord_inc, [tax |-> FxZero, rate |-> 0])
        t_total    == Max(0, (wages * 100 + tss + ltcg * 100) - deduction)
        l_portion  == Max(0, t_total - t_ord_inc)
        l          == ltcg_loop(c.ltcg, 1, t_ord_inc, l_portion,
                                [tax |-> FxZero, rate |-> 0])
    IN  [ord_tax |-> o.tax, l_tax |-> l.tax, niit |-> niit(c, wages, ltcg),
         taxable_ss |-> tss, current_ord_rate |-> o.rate,
         current_ltcg_rate |-> l.rate, sd_used |-> sd]

-----------------------------------------------------------------------------
(* The script: the sidebar scenario, the call of line 132, the sweep of     *)
(* lines 152-173                                                            *)

\* Bounds of the scenarios the sidebar is given
MaxWagesK == 6

MaxLtcgK == 2

MaxSsK == 2

\* Wages typed into the sidebar: the two values update_defaults sets (the
\* standard deductions) and multiples of 25000, among them both phase-out
\* starts
WagesChoices == {16100, 32200} \cup {k * 25000 : k \in 0..MaxWagesK}

\* Capital gains: the widget's default and multiples of 350000
LtcgChoices == {20000} \cup {k * 350000 : k \in 0..MaxLtcgK}

\* Social Security: multiples of 20000, among them the widget's default
SsChoices == {k * 20000 : k \in 0..MaxSsK}

\* The two keys of the table and one that is not a key
StatusChoices == {"Single", "Married Filing Jointly", "Head of Household"}

\* What res, r1 and r2 hold before the call that sets them returns
NoResult == <<>>

\* line 153: the number of samples of np.linspace(0, max_x, 800)
NumSamples == 800

\* line 154
delta == 1

\* line 134
total_in == st_wages + ltcg_input + ss_income

\* line 152
max_x == Max(total_in * 2, 150000)

\* line 153: sample n (from 0) of x_range, floor(n * max_x / 799), in whole
\* dollars
x_range(n) ==
    (max_x \div (NumSamples - 1)) * n
      + ((max_x % (NumSamples - 1)) * n) \div (NumSamples - 1)

\* o + l + n of lines 133 and 164
total_tax(r) == FxAdd(FxAdd(r.ord_tax, r.l_tax), r.niit)

Init ==
    /\ st_wages \in WagesChoices
    /\ ltcg_input \in LtcgChoices
    /\ ss_income \in SsChoices
    /\ st_status \in StatusChoices
    /\ is_senior \in BOOLEAN
    /\ pc = "start"
    /\ res = NoResult
    /\ idx = 0
    /\ x = 0
    /\ r1 = NoResult
    /\ r2 = NoResult
    /\ total_m = FxZero

\* line 132 with line 68: the call for the sidebar scenario returns
Call ==
    /\ pc = "start"
    /\ st_status \in DOMAIN DATA_2026
    /\ res' = get_tax_details(st_wages, ltcg_input, ss_income, st_status, is_senior)
    /\ pc' = "sweep"
    /\ UNCHANGED <<st_wages, ltcg_input, ss_income, st_status, is_senior,
                   idx, x, r1, r2, total_m>>

\* Mutant of CallRaises: an unknown key falls back on the first schedule
CallRaises_default ==
    /\ pc = "start"
    /\ st_status \notin DOMAIN DATA_2026
    /\ res' = get_tax_details(st_wages, ltcg_input, ss_income, "Single", is_senior)
    /\ pc' = "done"
    /\ UNCHANGED <<st_wages, ltcg_input, ss_income, st_status, is_senior,
                   idx, x, r1, r2, total_m>>

\* line 132 with line 68: DATA_2026[status] raises KeyError, the script ends
CallRaises ==
    /\ pc = "start"
    /\ st_status \notin DOMAIN DATA_2026
    /\ pc' = "raised"
    /\ UNCHANGED <<st_wages, ltcg_input, ss_income, st_status, is_senior,
                   res, idx, x, r1, r2, total_m>>

\* lines 159-164: one iteration of the sweep loop
SweepStep ==
    /\ pc = "sweep"
    /\ idx < NumSamples
    /\ LET xn == x_range(idx)
           a  == get_tax_details(xn, ltcg_input, ss_income, st_status, is_senior)
           b  == get_tax_details(xn + delta, ltcg_input, ss_income, st_status, is_senior)
       IN  /\ x' = xn
           /\ r1' = a
           /\ r2' = b
           \* delta is 1: the division by delta leaves the difference as it is
           /\ total_m' = FxTimes100(FxSub(total_tax(b), total_tax(a)))
    /\ idx' = idx + 1
    /\ UNCHANGED <<st_wages, ltcg_input, ss_income, st_status, is_senior, pc, res>>

\* line 159: x_range is exhausted
SweepEnd ==
    /\ pc = "sweep"
    /\ idx = NumSamples
    /\ pc' = "done"
    /\ UNCHANGED <<st_wages, ltcg_input, ss_income, st_status, is_senior,
                   res, idx, x, r1, r2, total_m>>

Next == Call \/ CallRaises \/ SweepStep \/ SweepEnd

Spec == Init /\ [][Next]_vars

-----------------------------------------------------------------------------
(* What the claims speak of *)

\* The evaluations the state holds: wages w and the breakdown r returned for
\* (w, ltcg_input, ss_income, st_status, is_senior)
Evals ==
    (IF res # NoResult THEN {[w |-> st_wages, r |-> res]} ELSE {})
      \cup (IF r1 # NoResult
            THEN {[w |-> x, r |-> r1], [w |-> x + delta, r |-> r2]}
            ELSE {})

FxLess(a, b) == FxLeq(a, b) /\ a # b

\* standardDeduction + seniorDeductionUsed, in cents
TotalDeduction(e) == DATA_2026[st_status].std * 100 + e.r.sd_used

\* O: ordinary taxable income, in cents
OrdinaryTaxable(e) == Max(0, e.w * 100 + e.r.taxable_ss - TotalDeduction(e))

\* C: combined taxable total, in cents
CombinedTotal(e) ==
    Max(0, e.w * 100 + e.r.taxable_ss + ltcg_input * 100 - TotalDeduction(e))

\* G: the capital-gains-taxed portion, in cents
GainsPortion(e) == Max(0, CombinedTotal(e) - OrdinaryTaxable(e))

\* provisional income of an evaluation, in cents
ProvOf(e) == e.w * 100 + ltcg_input * 100 + ss_income * 50

\* The brackets (by index) that a taxable amount T, in cents, has entered
Entered(brs, T) == {j \in 1..Len(brs) : T > brs[j][1] * 100}

RECURSIVE SliceSum(_, _, _)
\* sum over the brackets j in S of (min(T, high) - low) * rate / 100
SliceSum(S, brs, T) ==
    IF S = {} THEN FxZero
    ELSE LET j == CHOOSE m \in S : TRUE
         IN  FxAdd(FxTimes(Min(T, brs[j][2] * 100) - brs[j][1] * 100, brs[j][3]),
                   SliceSum(S \ {j}, brs, T))

\* The progressive-bracket reference: the tax on T under brs
Progressive(brs, T) == SliceSum(Entered(brs, T), brs, T)

\* The rate of the highest bracket T has entered, 0 when it has entered none
TopRate(brs, T) ==
    IF Entered(brs, T) = {} THEN 0
    ELSE brs[CHOOSE j \in Entered(brs, T) : \A m \in Entered(brs, T) : m <= j][3]

RECURSIVE OverlapSum(_, _, _, _)
\* sum over the brackets j in S of max(0, min(hi, high) - max(lo, low)) * rate / 100
OverlapSum(S, brs, lo, hi) ==
    IF S = {} THEN FxZero
    ELSE LET j == CHOOSE m \in S : TRUE
         IN  FxAdd(FxTimes(Max(0, Min(hi, brs[j][2] * 100) - Max(lo, brs[j][1] * 100)),
                           brs[j][3]),
                   OverlapSum(S \ {j}, brs, lo, hi))

-----------------------------------------------------------------------------
(* The claims *)

\* C1: for non-negative wages, capital gains and Social Security, either
\* supported status and either senior flag, every breakdown returned has
\* ordinaryTax, capitalGainsTax, niit, taxableSS and seniorDeductionUsed >= 0.
C1_NonNegative ==
    \A e \in Evals :
        /\ FxLeq(FxZero, e.r.ord_tax)
        /\ FxLeq(FxZero, e.r.l_tax)
        /\ FxLeq(FxZero, e.r.niit)
        /\ e.r.taxable_ss >= 0
        /\ e.r.sd_used >= 0

\* A sample below the NIIT threshold (wages + gains - threshold is negative)
\* and one whose five amounts are all strictly positive.
C1_Witness ==
    /\ \E e \in Evals :
          /\ e.w + ltcg_input < DATA_2026[st_status].niit
          /\ e.r.niit = FxZero
    /\ \E e \in Evals :
          /\ FxLess(FxZero, e.r.ord_tax)
          /\ FxLess(FxZero, e.r.l_tax)
          /\ FxLess(FxZero, e.r.niit)
          /\ e.r.taxable_ss > 0
          /\ e.r.sd_used > 0

\* C2: taxableSS <= 0.85 * socialSecurity in every breakdown returned,
\* whichever provisional-income tier the scenario is in.
C2_TaxableSSCap == \A e \in Evals : e.r.taxable_ss <= ss_income * 85

\* The sidebar scenario at or below t1 or in the middle tier, a sample above
\* t2 where the 0.85 cap is what binds.
C2_Witness ==
    /\ res # NoResult /\ r1 # NoResult /\ ss_income > 0
    /\ ProvOf([w |-> st_wages, r |-> res]) <= DATA_2026[st_status].ss_t[2] * 100
    /\ ProvOf([w |-> x, r |-> r1]) > DATA_2026[st_status].ss_t[2] * 100
    /\ r1.taxable_ss = ss_income * 85
    /\ res.taxable_ss < r1.taxable_ss

\* C3: of two evaluations that differ only in wages, the one with the larger
\* wages has the larger or equal ordinaryTax and the larger or equal taxableSS.
C3_MonotoneInWages ==
    \A e1, e2 \in Evals :
        e1.w <= e2.w =>
            /\ FxLeq(e1.r.ord_tax, e2.r.ord_tax)
            /\ e1.r.taxable_ss <= e2.r.taxable_ss

\* The sidebar scenario at or below t1 with the full senior deduction, a
\* sample above t2 inside the phase-out range, both outputs strictly larger.
C3_Witness ==
    /\ res # NoResult /\ r1 # NoResult /\ is_senior /\ ss_income > 0
    /\ st_wages < x
    /\ ProvOf([w |-> st_wages, r |-> res]) <= DATA_2026[st_status].ss_t[1] * 100
    /\ ProvOf([w |-> x, r |-> r1]) > DATA_2026[st_status].ss_t[2] * 100
    /\ res.sd_used = DATA_2026[st_status].senior_deduction * 100
    /\ r1.sd_used > 0 /\ r1.sd_used < res.sd_used
    /\ FxLess(res.ord_tax, r1.ord_tax)
    /\ res.taxable_ss < r1.taxable_ss

\* C4: ordinaryTax is the progressive-bracket sum over the ordinary brackets
\* entered by T = max(0, wages + taxableSS - (standardDeduction +
\* seniorDeductionUsed)), topOrdinaryRate is the rate of the highest bracket
\* entered, and (Single, 100000, 0, 0, not senior) gives T = 83900,
\* ordinaryTax = 13170 and topOrdinaryRate = 22.
C4_OrdinaryTaxReference ==
    /\ \A e \in Evals :
          /\ e.r.ord_tax = Progressive(DATA_2026[st_status].ord, OrdinaryTaxable(e))
          /\ e.r.current_ord_rate = TopRate(DATA_2026[st_status].ord, OrdinaryTaxable(e))
    /\ (/\ res # NoResult /\ st_status = "Single" /\ st_wages = 100000
        /\ ltcg_input = 0 /\ ss_income = 0 /\ ~is_senior)
         => /\ OrdinaryTaxable([w |-> st_wages, r |-> res]) = 83900 * 100
            /\ res.ord_tax = [d |-> 13170, f |-> 0]
            /\ res.current_ord_rate = 22

\* The scenario of the example, evaluated, and a sample of its sweep in the
\* bracket above.
C4_Witness ==
    /\ res # NoResult /\ st_status = "Single" /\ st_wages = 100000
    /\ ltcg_input = 0 /\ ss_income = 0 /\ ~is_senior
    /\ r1 # NoResult /\ r1.current_ord_rate = 24

\* C5: capitalGainsTax is the sum over the capital-gains brackets of
\* max(0, min(O + G, high) - max(O, low)) * rate / 100, which is the
\* progressive tax on O + G less the progressive tax on O under the
\* capital-gains brackets: nothing below O is taxed, and each dollar of G is
\* taxed at the rate of the bracket its stacked position falls in.
C5_CapitalGainsStacked ==
    \A e \in Evals :
        LET brs == DATA_2026[st_status].ltcg
            O   == OrdinaryTaxable(e)
            G   == GainsPortion(e)
        IN  /\ e.r.l_tax = OverlapSum(1..Len(brs), brs, O, O + G)
            /\ FxAdd(e.r.l_tax, Progressive(brs, O)) = Progressive(brs, O + G)

\* Gains stacked on a positive ordinary income that lies in the second
\* bracket and reach into the top capital-gains bracket.
C5_Witness ==
    \E e \in Evals :
        LET brs == DATA_2026[st_status].ltcg
            O   == OrdinaryTaxable(e)
            G   == GainsPortion(e)
        IN  /\ O > brs[2][1] * 100
            /\ O < brs[3][1] * 100
            /\ O + G > brs[3][1] * 100
            /\ FxLess(FxZero, e.r.l_tax)

\* C6 as stated: a senior whose wages equal seniorPhaseoutStart is returned
\* the full seniorDeduction, whatever the other inputs.
C6_FullAtPhaseoutStart ==
    \A e \in Evals :
        (is_senior /\ e.w = DATA_2026[st_status].phaseout_start)
            => e.r.sd_used = DATA_2026[st_status].senior_deduction * 100

\* C6 amended: a senior whose wages equal seniorPhaseoutStart and whose
\* capital gains are 0 is returned the full seniorDeduction (6500 Single,
\* 13000 Married Filing Jointly).
C6_FullAtPhaseoutStartNoGains ==
    \A e \in Evals :
        (is_senior /\ e.w = DATA_2026[st_status].phaseout_start /\ ltcg_input = 0)
            => /\ e.r.sd_used = DATA_2026[st_status].senior_deduction * 100
               /\ e.r.sd_used = (IF st_status = "Single" THEN 6500 ELSE 13000) * 100

\* A senior with wages at the phase-out start and no gains, evaluated.
C6_Witness ==
    /\ res # NoResult /\ is_senior /\ ltcg_input = 0
    /\ st_wages = DATA_2026[st_status].phaseout_start

\* C7: whenever the stacked total O + G exceeds the lower bound of the top
\* capital-gains bracket (545500 Single, 613700 Married Filing Jointly),
\* topCapitalGainsRate is 20.
C7_TopCapitalGainsRate ==
    \A e \in Evals :
        (OrdinaryTaxable(e) + GainsPortion(e)
            > (IF st_status = "Single" THEN 545500 ELSE 613700) * 100)
          => e.r.current_ltcg_rate = 20

\* The gains are what carries the stacked total past the top bracket's
\* lower bound: the ordinary income alone is below it.
C7_Witness ==
    \E e \in Evals :
        LET brs == DATA_2026[st_status].ltcg
        IN  /\ ltcg_input > 0
            /\ OrdinaryTaxable(e) > 0
            /\ OrdinaryTaxable(e) < brs[Len(brs)][1] * 100
            /\ OrdinaryTaxable(e) + GainsPortion(e) > brs[Len(brs)][1] * 100
            /\ e.r.current_ltcg_rate = 20

\* C8: with a filing-status key other than "Single" and "Married Filing
\* Jointly" the call raises before any figure is computed: no breakdown is
\* ever held, and the script goes nowhere but to the lookup error.
C8_UnknownStatusRaises ==
    (st_status \notin {"Single", "Married Filing Jointly"}) =>
        /\ pc \in {"start", "raised"}
        /\ res = NoResult /\ r1 = NoResult /\ r2 = NoResult

\* The lookup error has been raised.
C8_Witness == pc = "raised" /\ st_status = "Head of Household"

\* C9: an ordinary taxable income of 0 gives ordinaryTax = 0 and
\* topOrdinaryRate = 0; a stacked total of 0 as well gives capitalGainsTax = 0
\* and topCapitalGainsRate = 0; (Married Filing Jointly, 32200, 0, 0, not
\* senior) gives ordinaryTax = 0.
C9_ZeroIncomeNoBracket ==
    /\ \A e \in Evals :
          /\ OrdinaryTaxable(e) = 0
               => e.r.ord_tax = FxZero /\ e.r.current_ord_rate = 0
          /\ (OrdinaryTaxable(e) = 0 /\ OrdinaryTaxable(e) + GainsPortion(e) = 0)
               => e.r.l_tax = FxZero /\ e.r.current_ltcg_rate = 0
    /\ (/\ res # NoResult /\ st_status = "Married Filing Jointly"
        /\ st_wages = 32200 /\ ltcg_input = 0 /\ ss_income = 0 /\ ~is_senior)
         => res.ord_tax = FxZero

\* The scenario of the example, evaluated: wages equal the deduction exactly.
C9_Witness ==
    /\ res # NoResult /\ st_status = "Married Filing Jointly"
    /\ st_wages = 32200 /\ ltcg_input = 0 /\ ss_income = 0 /\ ~is_senior
    /\ st_wages * 100 + res.taxable_ss = TotalDeduction([w |-> st_wages, r |-> res])

\* C10: total tax is non-decreasing in wages with the other inputs fixed, and
\* the total marginal rate the sweep loop computes is never negative.
C10_TotalMarginalNonNegative ==
    /\ \A e1, e2 \in Evals :
          e1.w <= e2.w => FxLeq(total_tax(e1.r), total_tax(e2.r))
    /\ idx > 0 => FxLeq(FxZero, total_m)

\* A sample at which one more dollar of wages raises the tax on unchanged
\* gains: ordinary income pushes them up the capital-gains brackets.
C10_Witness ==
    /\ idx > 0 /\ ltcg_input > 0
    /\ OrdinaryTaxable([w |-> x, r |-> r1]) > 0
    /\ GainsPortion([w |-> x, r |-> r1]) = ltcg_input * 100
    /\ GainsPortion([w |-> x + delta, r |-> r2]) = ltcg_input * 100
    /\ FxLess(r1.l_tax, r2.l_tax)
    /\ FxLess(FxZero, total_m)

=============================================================================
